---- MODULE Spec2Model ----
(***************************************************************************)
(* kantab: the drag-and-drop ordering of lists and cards in the front-end  *)
(* store (changeListPosition, changeCardPosition and the mutations they    *)
(* commit) and the GraphQL type generator (generateType).                  *)
(*                                                                         *)
(* Positions are JavaScript numbers.  They are modelled as exact dyadic    *)
(* fractions: the integer p stands for the position p / Scale.  A move     *)
(* whose midpoint is not a multiple of 1 / Scale is outside the model      *)
(* (see Representable); rounding of IEEE doubles is not modelled.          *)
(***************************************************************************)
EXTENDS Integers, Sequences, FiniteSets, TLC

\* ---------------------------------------------------------------- bounds
\* Position units per 1.0: the integer p is the position p / Scale.
Scale == 4
\* The initial positions of a container are drawn from 0 .. MaxPosition.
MaxPosition == 2
\* The largest number of entities in the container.
MaxRows == 3
\* The number of move requests in a series of moves on one container.
MaxMoves == 2

\* ------------------------------------------------------- JavaScript values
\* `undefined`: what an array read outside the array, or `let movedList;`, gives.
Undefined == 0
\* `null`, as the drag-and-drop handler passes it for an absent index.
Null == <<>>
\* A non-null index i.
Idx(i) == <<i>>
\* The position a newly created entity has on the server.
DefaultPosition == 0

Ids == 1 .. MaxRows

VARIABLES
    kind,       \* "list": the container is state.board.lists.rows; "card": list.cards.rows
    rows,       \* the container's ordered view: a sequence of entity ids
    position,   \* the stored `position` field of every entity
    budget,     \* the number of move requests still to be issued
    issued,     \* the number of move requests issued so far
    last,       \* the last request and what the handler did with it
    schema,     \* generateType: the entries of schema.settings.fields, in insertion order
    hasFields,   \* generateType: whether schema.settings carries `fields` at all
    pc,         \* generateType: "idle", "entries" (in the forEach), "done" or "threw"
    idx,        \* generateType: the index of the entry the forEach visits next
    res,        \* generateType: the lines pushed so far
    lines,      \* the field lines among res, each with its parts
    text,       \* generateType: the string returned
    server,     \* the container as persisted: its entities and their positions
    store,      \* the container as each of two clients holds it in its store
    moves       \* each client's move: its stage and what it computed

ordering == <<kind, rows, position, budget, issued, last>>
generator == <<schema, hasFields, pc, idx, res, lines, text>>
clients == <<server, store, moves>>
vars == <<ordering, generator, clients>>

Min(a, b) == IF a < b THEN a ELSE b
Max(a, b) == IF a > b THEN a ELSE b

\* Math.floor and Math.ceil of a position, in units.
Floor(p) == p - (p % Scale)
Ceil(p) == -Floor(-p)

\* Number(index) as the arithmetic `toIndex - 1` coerces it: null is 0.
ToNumber(index) == IF index = Null THEN 0 ELSE index[1]

\* arr[i] of a JavaScript array: undefined outside 0 .. length-1.
At(arr, i) == IF i >= 0 /\ i < Len(arr) THEN arr[i + 1] ELSE Undefined

\* The start index Array.prototype.splice resolves: negative counts from the
\* end, and the result is clamped to 0 .. length.
SpliceStart(arr, start) ==
    IF start < 0 THEN Max(Len(arr) + start, 0) ELSE Min(start, Len(arr))

\* arr.splice(start, 1)[0]: the removed element, undefined when none is removed.
SpliceRemoved(arr, start) == At(arr, SpliceStart(arr, start))

\* arr after arr.splice(start, 1).
SpliceDelete(arr, start) ==
    LET s == SpliceStart(arr, start)
    IN  SubSeq(arr, 1, s) \o SubSeq(arr, s + 2, Len(arr))

\* arr after arr.splice(start, 0, item).
SpliceInsert(arr, start, item) ==
    LET s == SpliceStart(arr, start)
    IN  SubSeq(arr, 1, s) \o <<item>> \o SubSeq(arr, s + 1, Len(arr))

\* Mutant of Result: the null check of toIndex is lost, and null splices as 0.
Result_InsertsAtNull(arr, fromIndex, toIndex, moved) ==
    LET removed == IF fromIndex # Null THEN SpliceDelete(arr, fromIndex[1]) ELSE arr
    IN  SpliceInsert(removed, ToNumber(toIndex), moved)

\* const result = [...arr]; if (fromIndex !== null) result.splice(fromIndex, 1);
\* if (toIndex !== null) result.splice(toIndex, 0, moved);
Result(arr, fromIndex, toIndex, moved) ==
    LET removed == IF fromIndex # Null THEN SpliceDelete(arr, fromIndex[1]) ELSE arr
    IN  IF toIndex # Null THEN SpliceInsert(removed, toIndex[1], moved) ELSE removed

\* const toPrev = result[toIndex - 1]; const toNext = result[toIndex + 1];
ToPrev(result, toIndex) == At(result, ToNumber(toIndex) - 1)
ToNext(result, toIndex) == At(result, ToNumber(toIndex) + 1)

\* Mutant of Mean: the mean is rounded up to a whole position.
Mean_RoundedUp(a, b) == Ceil((a + b) \div 2)

\* (toNext.position + toPrev.position) / 2
Mean(a, b) == (a + b) \div 2

\* Mutant of CardNewPosition: the head insert takes floor(next) without the
\* step of 1 below it.
CardNewPosition_HeadNoStep(pos, toPrev, toNext) ==
    IF toNext = Undefined /\ toPrev = Undefined THEN 1 * Scale
    ELSE IF toNext = Undefined THEN Ceil(pos[toPrev] + Scale)
    ELSE IF toPrev = Undefined THEN Floor(pos[toNext])
    ELSE Mean(pos[toNext], pos[toPrev])

\* The position the card move computes from the neighbours of the slot.
CardNewPosition(pos, toPrev, toNext) ==
    IF toNext = Undefined /\ toPrev = Undefined THEN 1 * Scale
    ELSE IF toNext = Undefined THEN Ceil(pos[toPrev] + Scale)
    ELSE IF toPrev = Undefined THEN Floor(pos[toNext] - Scale)
    ELSE Mean(pos[toNext], pos[toPrev])

\* The list move has no branch for a slot without neighbours: with toNext
\* undefined it reads toPrev.position, a TypeError when toPrev is undefined.
ListThrowsOnPosition(toPrev, toNext) == toNext = Undefined /\ toPrev = Undefined

\* Mutant of ListNewPosition: the tail insert takes ceil(prev) without the
\* step of 1 above it.
ListNewPosition_TailNoStep(pos, toPrev, toNext) ==
    IF toNext = Undefined THEN Ceil(pos[toPrev])
    ELSE IF toPrev = Undefined THEN Floor(pos[toNext] - Scale)
    ELSE Mean(pos[toNext], pos[toPrev])

\* The position the list move computes (where it does not throw).
ListNewPosition(pos, toPrev, toNext) ==
    IF toNext = Undefined THEN Ceil(pos[toPrev] + Scale)
    ELSE IF toPrev = Undefined THEN Floor(pos[toNext] - Scale)
    ELSE Mean(pos[toNext], pos[toPrev])

\* The exact arithmetic of the model covers the request: a midpoint is taken
\* only of two positions whose sum is even in units.
Representable(pos, toPrev, toNext) ==
    (toPrev # Undefined /\ toNext # Undefined) => (pos[toPrev] + pos[toNext]) % 2 = 0


\* ------------------------------------------------------------ the backend
\* What the listUpdate / cardUpdate mutation answers: the entity as persisted,
\* with the position the request carried.
ServerPosition(input) == input

\* apolloClient.mutate either resolves with the updated entity or rejects.
Responses == {"resolved", "rejected"}

\* ---------------------------------------------------------- store mutations
\* state.board.lists.rows.find(b => b.id == list.id), list.cards.rows.find(...)
Found(rs, id) == \E i \in 1 .. Len(rs) : rs[i] = id

\* UPDATE_LIST: with the list found it evaluates Object.assign(found, board),
\* and `board` is not defined in the mutation: a ReferenceError.
UpdateListThrows(rs, id) == Found(rs, id)

\* UPDATE_LIST, the list not found: state.board.lists.rows = [...rows, list].
UpdateListRows(rs, id) == IF Found(rs, id) THEN rs ELSE Append(rs, id)

\* UPDATE_CARD: Object.assign(found, card), else list.cards.rows.push(card).
UpdateCardRows(rs, id) == IF Found(rs, id) THEN rs ELSE Append(rs, id)

\* Mutant of SetPosition: the siblings at or after the new position are
\* renumbered one step up.
SetPosition_Renumber(pos, id, p) ==
    [i \in DOMAIN pos |-> IF i = id THEN p
                          ELSE IF pos[i] >= p THEN pos[i] + Scale ELSE pos[i]]

\* card.position = newPosition / Object.assign(found, card)
SetPosition(pos, id, p) == [pos EXCEPT ![id] = p]

\* ------------------------------------------------------------- the requests
NoRequest ==
    [op |-> "none", fromIndex |-> Null, toIndex |-> Null, moved |-> Undefined,
     rowsBefore |-> <<>>, positionBefore |-> [i \in Ids |-> DefaultPosition],
     toPrev |-> Undefined, toNext |-> Undefined,
     computed |-> FALSE, newPosition |-> 0, threw |-> FALSE,
     dispatched |-> FALSE, response |-> "none", failed |-> FALSE]

\* Two browser sessions, each with its own store, on the same board.
Clients == {"c1", "c2"}

\* A client that has issued no move.
NoMove ==
    [stage |-> "idle", moved |-> Undefined, toPrev |-> Undefined,
     toNext |-> Undefined, newPosition |-> 0,
     snapshot |-> [rows |-> <<>>, position |-> [i \in Ids |-> DefaultPosition]],
     over |-> [rows |-> <<>>, position |-> [i \in Ids |-> DefaultPosition]],
     answer |-> 0]

\* No second session: an empty container on the server and in the stores.
ClientsIdle ==
    /\ server = [rows |-> <<>>, position |-> [i \in Ids |-> DefaultPosition]]
    /\ store = [c \in Clients |-> server]
    /\ moves = [c \in Clients |-> NoMove]

\* async changeListPosition({ state, dispatch, commit }, { fromIndex, toIndex })
\* together with the updateList action it awaits.
changeListPosition(fromIndex, toIndex, response) ==
    LET arr == rows
        movedList == IF fromIndex # Null THEN SpliceRemoved(arr, fromIndex[1])
                     ELSE Undefined
        result == Result(arr, fromIndex, toIndex, movedList)
        toPrev == ToPrev(result, toIndex)
        toNext == ToNext(result, toIndex)
        computed == ~ListThrowsOnPosition(toPrev, toNext)
        newPosition == IF computed THEN ListNewPosition(position, toPrev, toNext)
                       ELSE 0
        \* console.debug reads movedList.title
        threw == ~computed \/ movedList = Undefined
        request == [op |-> "changeListPosition", fromIndex |-> fromIndex,
                    toIndex |-> toIndex, moved |-> movedList,
                    rowsBefore |-> rows, positionBefore |-> position,
                    toPrev |-> toPrev, toNext |-> toNext,
                    computed |-> computed, newPosition |-> newPosition,
                    threw |-> threw, dispatched |-> ~threw,
                    response |-> IF threw THEN "none" ELSE response,
                    failed |-> FALSE]
    IN  /\ kind = "list"
        /\ budget > 0
        /\ Representable(position, toPrev, toNext)
        /\ threw => response = "resolved"
        /\ budget' = budget - 1
        /\ issued' = issued + 1
        /\ kind' = kind
        /\ UNCHANGED <<generator, clients>>
        /\ IF threw
           THEN /\ UNCHANGED <<rows, position>>
                /\ last' = request
           ELSE \* movedList.position = newPosition; commit("SET_NEW_LIST_ORDER", result)
                IF response = "rejected"
                THEN /\ rows' = result
                     /\ position' = SetPosition(position, movedList, newPosition)
                     /\ last' = [request EXCEPT !.failed = TRUE]
                ELSE /\ rows' = UpdateListRows(result, movedList)
                     /\ position' =
                            IF UpdateListThrows(result, movedList)
                            THEN SetPosition(position, movedList, newPosition)
                            ELSE SetPosition(position, movedList,
                                             ServerPosition(newPosition))
                     /\ last' = [request EXCEPT
                                    !.failed = UpdateListThrows(result, movedList)]

\* async changeCardPosition({ state, dispatch, commit }, { list, fromIndex, toIndex, card })
\* together with the updateCard action it awaits.
changeCardPosition(fromIndex, toIndex, card, response) ==
    LET result == Result(rows, fromIndex, toIndex, card)
        toPrev == ToPrev(result, toIndex)
        toNext == ToNext(result, toIndex)
        computed == toIndex # Null
        newPosition == IF computed THEN CardNewPosition(position, toPrev, toNext)
                       ELSE 0
        request == [op |-> "changeCardPosition", fromIndex |-> fromIndex,
                    toIndex |-> toIndex, moved |-> card,
                    rowsBefore |-> rows, positionBefore |-> position,
                    toPrev |-> toPrev, toNext |-> toNext,
                    computed |-> computed, newPosition |-> newPosition,
                    threw |-> FALSE, dispatched |-> computed,
                    response |-> IF computed THEN response ELSE "none",
                    failed |-> computed /\ response = "rejected"]
    IN  /\ kind = "card"
        /\ budget > 0
        /\ computed => Representable(position, toPrev, toNext)
        /\ ~computed => response = "resolved"
        /\ budget' = budget - 1
        /\ issued' = issued + 1
        /\ kind' = kind
        /\ UNCHANGED <<generator, clients>>
        /\ last' = request
        /\ IF computed
           THEN \* card.position = newPosition; list.cards.rows = result
                IF response = "rejected"
                THEN /\ rows' = result
                     /\ position' = SetPosition(position, card, newPosition)
                ELSE /\ rows' = UpdateCardRows(result, card)
                     /\ position' = SetPosition(position, card,
                                                ServerPosition(newPosition))
           ELSE \* First call at moving between lists
                /\ rows' = result
                /\ position' = position

\* --------------------------------------------------------- request shapes
\* The indexes of the entities in the view, or null for an arriving entity.
FromIndexes == {Null} \cup {Idx(i) : i \in 0 .. Len(rows) - 1}

\* The number of siblings the moved entity is inserted among.
Siblings(fromIndex) == IF fromIndex = Null THEN Len(rows) ELSE Len(rows) - 1

\* The insertion slots of the destination sequence.
InRange(fromIndex) == {Idx(i) : i \in 0 .. Siblings(fromIndex)}

\* null, and indexes before the first and beyond the last slot.
OutOfRange(fromIndex) ==
    {Null} \cup {Idx(i) : i \in {-2, -1, Siblings(fromIndex) + 1, Siblings(fromIndex) + 2}}

\* The card the drag-and-drop payload carries: the one at fromIndex, or one of
\* another list when fromIndex is null.
Cards(fromIndex) ==
    IF fromIndex = Null THEN {c \in Ids : ~Found(rows, c)} ELSE {At(rows, fromIndex[1])}

MoveList ==
    \E fromIndex \in FromIndexes : \E toIndex \in InRange(fromIndex) :
        \E response \in Responses : changeListPosition(fromIndex, toIndex, response)

MoveCard ==
    \E fromIndex \in FromIndexes : \E toIndex \in InRange(fromIndex) :
        \E card \in Cards(fromIndex) : \E response \in Responses :
            changeCardPosition(fromIndex, toIndex, card, response)

MoveListOutOfRange ==
    \E fromIndex \in FromIndexes : \E toIndex \in OutOfRange(fromIndex) :
        \E response \in Responses : changeListPosition(fromIndex, toIndex, response)

MoveCardOutOfRange ==
    \E fromIndex \in FromIndexes : \E toIndex \in OutOfRange(fromIndex) :
        \E card \in Cards(fromIndex) : \E response \in Responses :
            changeCardPosition(fromIndex, toIndex, card, response)

\* ------------------------------------------------------------ specifications
\* Strictly ascending positions along a view.
Ascending(rs, pos) ==
    \A i \in 1 .. Len(rs) - 1 : pos[rs[i]] < pos[rs[i + 1]]

\* ------------------------------------------------------------ generateType
\* The largest number of fields of a field map.
MaxFields == 3

\* An attribute the descriptor does not carry (undefined, falsy like "").
Absent == ""
\* A descriptor without `items`.
NoItems == <<>>

\* The kinds (`type`) a descriptor carries.
Kinds == {Absent, "string", "boolean", "number", "date", "array", "object"}
\* The override type names (`graphqlType`) a descriptor carries.
Overrides == {Absent, "Float", "number", "array"}
\* The `items` descriptors of an array field.
Items == {NoItems, <<[type |-> "string"]>>, <<[type |-> "number"]>>}

\* Every descriptor over these attributes.
Descriptors ==
    [graphqlType : Overrides, type : Kinds, properties : BOOLEAN,
     items : Items, required : BOOLEAN]

Descriptor(type, items, required) ==
    [graphqlType |-> Absent, type |-> type, properties |-> FALSE,
     items |-> items, required |-> required]

\* The descriptors the field maps of several fields are made of: a required
\* string, a number, an array of strings and two not-well defined fields.
CommonDescriptors ==
    {Descriptor("string", NoItems, TRUE), Descriptor("number", NoItems, FALSE),
     Descriptor("array", <<[type |-> "string"]>>, FALSE),
     Descriptor("array", NoItems, FALSE), Descriptor("object", NoItems, FALSE)}

\* A descriptor that is null (or undefined) instead of an object.
NullDescriptor == [null |-> TRUE]
IsNull(field) == DOMAIN field = {"null"}

\* A descriptor that is a primitive, like the shorthand `description: "string"`:
\* every attribute read from it is undefined.
Shorthand == Descriptor(Absent, NoItems, FALSE)

\* The descriptors of a partial or malformed field map: a well-defined field,
\* a shorthand, a null and an array without items.
PartialDescriptors ==
    {Descriptor("string", NoItems, TRUE), Shorthand, NullDescriptor,
     Descriptor("array", NoItems, FALSE)}

\* The keys of the field map, in insertion order.
FieldNames == <<"title", "position", "labels", "options", "members">>

\* Mutant of DeclaredType: the kind is taken before the override type name.
DeclaredType_KindFirst(field) ==
    IF field.type # Absent THEN field.type
    ELSE IF field.graphqlType # Absent THEN field.graphqlType
    ELSE "string"

\* let type = field.graphqlType || field.type || "string";
DeclaredType(field) ==
    IF field.graphqlType # Absent THEN field.graphqlType
    ELSE IF field.type # Absent THEN field.type
    ELSE "string"

\* type.slice(0, 1).toUpperCase() + type.slice(1)
UpperFirst(type) ==
    IF type = "string" THEN "String"
    ELSE IF type = "boolean" THEN "Boolean"
    ELSE type

\* The type name after lines 12-15: string and boolean capitalised, number
\* turned into Int.
TypeName(field) ==
    LET declared == DeclaredType(field)
        type == IF declared \in {"string", "boolean"} THEN UpperFirst(declared)
                ELSE declared
    IN  IF type = "number" THEN "Int" ELSE type

\* // Skip not-well defined fields
Skipped(field) ==
    \/ TypeName(field) = "object" /\ ~field.properties
    \/ TypeName(field) = "array" /\ field.items = NoItems

\* if (field.type == "array") type = `[${type}]`; if (field.required) type += "!";
FieldType(field) ==
    LET type == IF field.type = "array" THEN "[" \o TypeName(field) \o "]"
                ELSE TypeName(field)
    IN  IF field.required THEN type \o "!" ELSE type

\* idx < entries.length - 1 ? "," : ""
Separator(i, length) == IF i < length - 1 THEN "," ELSE ""

\* `  ${name}: ${type}${separator}`
Line(name, type, separator) == "  " \o name \o ": " \o type \o separator

\* res.join("\n")
RECURSIVE Join(_)
Join(strings) ==
    IF Len(strings) = 0 THEN ""
    ELSE IF Len(strings) = 1 THEN strings[1]
    ELSE strings[1] \o "\n" \o Join(Tail(strings))

\* No call of generateType.
GeneratorIdle ==
    /\ schema = <<>>
    /\ hasFields = TRUE
    /\ pc = "idle"
    /\ idx = 0
    /\ res = <<>>
    /\ lines = <<>>
    /\ text = ""

\* generateType(name, schema), up to the forEach: const res = [`type ${name} {`];
generateType ==
    /\ pc = "idle"
    /\ pc' = "entries"
    /\ res' = <<"type Board {">>
    /\ UNCHANGED <<schema, hasFields, idx, lines, text>>
    /\ UNCHANGED <<ordering, clients>>

\* One call of the forEach callback: ([name, field], idx) => { ... }
\* Reading field.graphqlType of a null descriptor is a TypeError, which leaves
\* the forEach and generateType.
forEachEntry ==
    /\ pc = "entries"
    /\ hasFields
    /\ idx < Len(schema)
    /\ LET field == schema[idx + 1]
           name == FieldNames[idx + 1]
       IN  IF IsNull(field)
           THEN /\ pc' = "threw"
                /\ UNCHANGED <<res, lines, idx>>
           ELSE /\ pc' = pc
                /\ idx' = idx + 1
                /\ LET parts == [field |-> idx, name |-> name,
                                 type |-> FieldType(field),
                                 separator |-> Separator(idx, Len(schema))]
                   IN  IF Skipped(field)
                       THEN UNCHANGED <<res, lines>>
                       ELSE /\ res' = Append(res, Line(name, parts.type,
                                                       parts.separator))
                            /\ lines' = Append(lines, parts)
    /\ UNCHANGED <<schema, hasFields, text>>
    /\ UNCHANGED <<ordering, clients>>

\* res.push("}"); return res.join("\n");
returnText ==
    /\ pc = "entries"
    /\ ~hasFields \/ idx = Len(schema)
    /\ res' = Append(res, "}")
    /\ text' = Join(res')
    /\ pc' = "done"
    /\ UNCHANGED <<schema, hasFields, idx, lines>>
    /\ UNCHANGED <<ordering, clients>>

\* No move request.
OrderingIdle ==
    /\ kind = "card"
    /\ rows = <<>>
    /\ position = [i \in Ids |-> DefaultPosition]
    /\ budget = 0
    /\ issued = 0
    /\ last = NoRequest

\* A field map of one field with any descriptor, or of up to MaxFields fields
\* with common descriptors.
InitGenerator ==
    /\ OrderingIdle
    /\ ClientsIdle
    /\ \/ \E field \in Descriptors : schema = <<field>>
       \/ \E n \in 0 .. MaxFields : schema \in [1 .. n -> CommonDescriptors]
    /\ hasFields = TRUE
    /\ pc = "idle"
    /\ idx = 0
    /\ res = <<>>
    /\ lines = <<>>
    /\ text = ""

\* A field map of up to MaxFields partial or malformed descriptors, or a
\* schema whose settings carry no `fields`.
InitGeneratorPartial ==
    /\ OrderingIdle
    /\ ClientsIdle
    /\ \/ /\ hasFields = TRUE
          /\ \E n \in 0 .. MaxFields : schema \in [1 .. n -> PartialDescriptors]
       \/ /\ hasFields = FALSE
          /\ schema = <<>>
    /\ pc = "idle"
    /\ idx = 0
    /\ res = <<>>
    /\ lines = <<>>
    /\ text = ""

NextGenerator == generateType \/ forEachEntry \/ returnText

\* generateType over a field map.
SpecGenerator == InitGenerator /\ [][NextGenerator]_vars

\* generateType over a partial or malformed field map.
SpecGeneratorPartial == InitGeneratorPartial /\ [][NextGenerator]_vars

\* The first n entities, in id order.
FirstRows(n) == [i \in 1 .. n |-> i]

\* One request on any container the server can list: up to MaxRows entities
\* at strictly ascending positions; the entities outside the container keep
\* the default position.
InitAny ==
    /\ kind \in {"list", "card"}
    /\ \E n \in 0 .. MaxRows : rows = FirstRows(n)
    /\ position \in [Ids -> 0 .. MaxPosition * Scale]
    /\ Ascending(rows, position)
    /\ \A i \in Ids : ~Found(rows, i) => position[i] = DefaultPosition
    /\ budget = 1
    /\ issued = 0
    /\ last = NoRequest
    /\ GeneratorIdle
    /\ ClientsIdle

\* A series of requests on a container whose entities were created one after
\* the other, at the positions 1, 2, 3, ...
InitSeries ==
    /\ kind \in {"list", "card"}
    /\ \E n \in 0 .. MaxRows : rows = FirstRows(n)
    /\ position = [i \in Ids |-> IF Found(rows, i) THEN i * Scale ELSE DefaultPosition]
    /\ budget = MaxMoves
    /\ issued = 0
    /\ last = NoRequest
    /\ GeneratorIdle
    /\ ClientsIdle

Init == InitAny \/ InitSeries

\* Every move is one step of one store: the handler runs to its await and the
\* answer of the server is folded into the step.
Next == MoveList \/ MoveCard

\* Moves whose indexes are in range.
Spec == Init /\ [][Next]_vars

NextAnyShape == MoveList \/ MoveCard \/ MoveListOutOfRange \/ MoveCardOutOfRange

\* Moves of every request shape: also a null or out-of-range toIndex.
SpecAnyShape == InitAny /\ [][NextAnyShape]_vars

\* ------------------------------------------------- two clients, one server
\* What the server lists for `sort: "position"`: the entities of the container
\* in an order of non-descending position; the order among entities of equal
\* position is the server's choice.
SortedRows(srv) ==
    {rs \in [1 .. Len(srv.rows) -> Ids] :
        /\ \A i \in 1 .. Len(srv.rows) : Found(rs, srv.rows[i])
        /\ \A i \in 1 .. Len(rs) - 1 : srv.position[rs[i]] <= srv.position[rs[i + 1]]}

\* The container a handler reads: state.board.lists.rows, list.cards.rows of
\* the client's own store.
Snapshot(c) == store[c]

\* The move a handler has computed and handed to updateList / updateCard.
Sent(c, moved, toPrev, toNext, newPosition) ==
    [stage |-> "sent", moved |-> moved, toPrev |-> toPrev, toNext |-> toNext,
     newPosition |-> newPosition, snapshot |-> Snapshot(c),
     over |-> Snapshot(c), answer |-> 0]

\* getBoardById: the query answers the lists (the cards) sorted by position,
\* and SET_BOARD replaces the board of the store.
getBoardById(c) ==
    /\ moves[c].stage \in {"idle", "threw", "rejected", "failed", "done"}
    /\ \E rs \in SortedRows(server) :
          store' = [store EXCEPT ![c] = [rows |-> rs, position |-> server.position]]
    /\ UNCHANGED <<server, moves, ordering, generator>>

\* changeListPosition up to the request updateList sends: the new order and
\* the new position are written to the store before the server is asked.
sendListMove(c, fromIndex, toIndex) ==
    LET arr == Snapshot(c).rows
        pos == Snapshot(c).position
        movedList == SpliceRemoved(arr, fromIndex[1])
        result == Result(arr, fromIndex, toIndex, movedList)
        toPrev == ToPrev(result, toIndex)
        toNext == ToNext(result, toIndex)
        threw == ListThrowsOnPosition(toPrev, toNext) \/ movedList = Undefined
    IN  /\ kind = "list"
        /\ moves[c].stage = "idle"
        /\ Representable(pos, toPrev, toNext)
        /\ IF threw
           THEN /\ moves' = [moves EXCEPT ![c].stage = "threw"]
                /\ store' = store
           ELSE LET newPosition == ListNewPosition(pos, toPrev, toNext)
                IN  /\ store' = [store EXCEPT ![c] =
                           [rows |-> result,
                            position |-> SetPosition(pos, movedList, newPosition)]]
                    /\ moves' = [moves EXCEPT ![c] =
                           Sent(c, movedList, toPrev, toNext, newPosition)]
        /\ UNCHANGED <<server, ordering, generator>>

\* changeCardPosition, toIndex not null, up to the request updateCard sends.
sendCardMove(c, fromIndex, toIndex) ==
    LET arr == Snapshot(c).rows
        pos == Snapshot(c).position
        card == At(arr, fromIndex[1])
        result == Result(arr, fromIndex, toIndex, card)
        toPrev == ToPrev(result, toIndex)
        toNext == ToNext(result, toIndex)
        newPosition == CardNewPosition(pos, toPrev, toNext)
    IN  /\ kind = "card"
        /\ moves[c].stage = "idle"
        /\ Representable(pos, toPrev, toNext)
        /\ store' = [store EXCEPT ![c] =
               [rows |-> result, position |-> SetPosition(pos, card, newPosition)]]
        /\ moves' = [moves EXCEPT ![c] = Sent(c, card, toPrev, toNext, newPosition)]
        /\ UNCHANGED <<server, ordering, generator>>

\* The listUpdate / cardUpdate mutation on the server: the entity is persisted
\* with the position of the input and answered as persisted.  `over` keeps the
\* container the write was made over.
persistUpdate(c) ==
    /\ moves[c].stage = "sent"
    /\ server' = [server EXCEPT
                     !.position = SetPosition(@, moves[c].moved, moves[c].newPosition)]
    /\ moves' = [moves EXCEPT ![c].stage = "answered",
                              ![c].over = server,
                              ![c].answer = ServerPosition(moves[c].newPosition)]
    /\ UNCHANGED <<store, ordering, generator>>

\* The request is rejected (the catch of updateList, of updateCard): a toast,
\* and the store keeps what the handler wrote.
updateRejected(c) ==
    /\ moves[c].stage = "sent"
    /\ moves' = [moves EXCEPT ![c].stage = "rejected"]
    /\ UNCHANGED <<server, store, ordering, generator>>

\* commit("UPDATE_LIST", res.data.listUpdate)
UPDATE_LIST(c) ==
    LET list == moves[c].moved
    IN  /\ kind = "list"
        /\ moves[c].stage = "answered"
        /\ moves' = [moves EXCEPT ![c].stage =
                        IF UpdateListThrows(store[c].rows, list) THEN "failed"
                        ELSE "done"]
        /\ store' =
              IF UpdateListThrows(store[c].rows, list) THEN store
              ELSE [store EXCEPT ![c] =
                       [rows |-> UpdateListRows(store[c].rows, list),
                        position |-> SetPosition(store[c].position, list,
                                                 moves[c].answer)]]
        /\ UNCHANGED <<server, ordering, generator>>

\* commit("UPDATE_CARD", { list, card: res.data.cardUpdate })
UPDATE_CARD(c) ==
    LET card == moves[c].moved
    IN  /\ kind = "card"
        /\ moves[c].stage = "answered"
        /\ moves' = [moves EXCEPT ![c].stage = "done"]
        /\ store' = [store EXCEPT ![c] =
               [rows |-> UpdateCardRows(store[c].rows, card),
                position |-> SetPosition(store[c].position, card, moves[c].answer)]]
        /\ UNCHANGED <<server, ordering, generator>>

\* The indexes of the entities in the store of client c.
IndexesOf(c) == {Idx(i) : i \in 0 .. Len(store[c].rows) - 1}

Reload == \E c \in Clients : getBoardById(c)

SendListMove ==
    \E c \in Clients : \E fromIndex \in IndexesOf(c) : \E toIndex \in IndexesOf(c) :
        sendListMove(c, fromIndex, toIndex)

SendCardMove ==
    \E c \in Clients : \E fromIndex \in IndexesOf(c) : \E toIndex \in IndexesOf(c) :
        sendCardMove(c, fromIndex, toIndex)

Persist == \E c \in Clients : persistUpdate(c)

Reject == \E c \in Clients : updateRejected(c)

CommitList == \E c \in Clients : UPDATE_LIST(c)

CommitCard == \E c \in Clients : UPDATE_CARD(c)

\* A container of entities created one after the other, at the positions
\* 1, 2, 3, ..., which both clients have loaded.
InitClients ==
    /\ kind \in {"list", "card"}
    /\ rows = <<>>
    /\ position = [i \in Ids |-> DefaultPosition]
    /\ budget = 0
    /\ issued = 0
    /\ last = NoRequest
    /\ GeneratorIdle
    /\ \E n \in 0 .. MaxRows :
          server = [rows |-> FirstRows(n),
                    position |-> [i \in Ids |-> IF i <= n THEN i * Scale
                                                ELSE DefaultPosition]]
    /\ store = [c \in Clients |-> server]
    /\ moves = [c \in Clients |-> NoMove]

NextClients ==
    \/ Reload
    \/ SendListMove
    \/ SendCardMove
    \/ Persist
    \/ Reject
    \/ CommitList
    \/ CommitCard

\* One move of each of two clients, its steps interleaved with the other's.
SpecClients == InitClients /\ [][NextClients]_vars


\* ------------------------------------------------------------------ claims
\* The request was a move (a handler ran).
Moved == last.op # "none"

\* The siblings the moved entity is inserted among: the view before the
\* request without the entry at fromIndex.
SiblingsBefore ==
    IF last.fromIndex = Null THEN last.rowsBefore
    ELSE [i \in 1 .. Len(last.rowsBefore) - 1 |->
            IF i <= last.fromIndex[1] THEN last.rowsBefore[i]
            ELSE last.rowsBefore[i + 1]]

\* The request's toIndex is an insertion slot of the siblings.
ToInRange ==
    /\ last.toIndex # Null
    /\ last.toIndex[1] >= 0
    /\ last.toIndex[1] <= Len(SiblingsBefore)

\* The positions of the siblings before and after the slot, before the request.
PrevPosition == last.positionBefore[SiblingsBefore[last.toIndex[1]]]
NextPosition == last.positionBefore[SiblingsBefore[last.toIndex[1] + 1]]

C2_EmptySlotYieldsOne ==
    (Moved /\ ToInRange /\ Len(SiblingsBefore) = 0 /\ last.moved # Undefined) =>
        /\ ~last.threw
        /\ last.computed
        /\ last.newPosition = 1 * Scale

\* C3 (as claimed): a move with fromIndex = toIndex computes the position the
\* moved entity had before the request.
C3_NoOpKeepsPosition ==
    (Moved /\ last.fromIndex # Null /\ last.fromIndex = last.toIndex
        /\ last.computed) =>
        last.newPosition = last.positionBefore[last.moved]


\* The ids in a view.
IdsOf(rs) == {rs[i] : i \in 1 .. Len(rs)}

\* C4 (as claimed): a request whose toIndex is null signals an error, leaves
\* the view and every stored position unchanged and dispatches no update; and
\* no other request signals an error.
C4_NullToIndexRejected ==
    /\ (Moved /\ last.toIndex = Null) =>
          /\ last.threw
          /\ rows = last.rowsBefore
          /\ position = last.positionBefore
          /\ ~last.dispatched
    /\ (Moved /\ last.threw) => last.toIndex = Null

\* C4 (amended): a card move whose toIndex is null signals no error, computes
\* and stores no position, dispatches no update and takes the card at
\* fromIndex (if any) out of the view; and a move that does signal an error
\* leaves the view and every stored position unchanged and dispatches nothing.
C4_NullToIndexDetaches ==
    /\ (last.op = "changeCardPosition" /\ last.toIndex = Null) =>
          /\ ~last.threw
          /\ ~last.computed
          /\ ~last.dispatched
          /\ position = last.positionBefore
          /\ rows = SiblingsBefore
    /\ (Moved /\ last.threw) =>
          /\ rows = last.rowsBefore
          /\ position = last.positionBefore
          /\ ~last.dispatched

\* A card was taken out of a list of several cards by a null toIndex.
C4_Witness ==
    /\ last.op = "changeCardPosition"
    /\ last.toIndex = Null
    /\ last.fromIndex # Null
    /\ Len(last.rowsBefore) >= 2
    /\ Len(rows) = Len(last.rowsBefore) - 1
    /\ ~Found(rows, last.moved)

\* C5 (as claimed): over a non-empty sibling sequence a toIndex beyond the
\* last slot completes without error with ceil(last.position) + 1, and a
\* toIndex before the first slot with floor(first.position) - 1.
C5_OutOfRangeClamped ==
    (Moved /\ last.toIndex # Null /\ last.moved # Undefined
        /\ Len(SiblingsBefore) > 0) =>
        /\ last.toIndex[1] > Len(SiblingsBefore) =>
              /\ ~last.threw
              /\ last.computed
              /\ last.newPosition =
                    Ceil(last.positionBefore[SiblingsBefore[Len(SiblingsBefore)]]) + Scale
        /\ last.toIndex[1] < 0 =>
              /\ ~last.threw
              /\ last.computed
              /\ last.newPosition =
                    Floor(last.positionBefore[SiblingsBefore[1]]) - Scale

\* C6: a move changes the stored position of no entity but the moved one, and
\* leaves the ids of the container, the moved one apart, as they were.
C6_OnlyMovedEntityChanges ==
    Moved =>
        /\ \A i \in Ids : i # last.moved => position[i] = last.positionBefore[i]
        /\ IdsOf(rows) \ {last.moved} = IdsOf(last.rowsBefore) \ {last.moved}

\* A move among several siblings that stored a new position on the moved entity.
C6_Witness ==
    /\ Moved /\ ~last.threw /\ last.computed
    /\ Len(SiblingsBefore) >= 2
    /\ position[last.moved] = last.newPosition
    /\ position[last.moved] # last.positionBefore[last.moved]

Emitted(i) == \E j \in 1 .. Len(lines) : lines[j].field = i - 1

\* C8 (as claimed): a field of kind array without an items descriptor has no
\* line in the output, whatever its other attributes.
C8_ArrayWithoutItemsOmitted ==
    \A i \in 1 .. Len(schema) :
        (schema[i].type = "array" /\ schema[i].items = NoItems) => ~Emitted(i)

\* The type name the items descriptor resolves to by the rules of a field.
InnerType(item) ==
    IF item.type \in {Absent, "string"} THEN "String"
    ELSE IF item.type = "boolean" THEN "Boolean"
    ELSE IF item.type = "number" THEN "Int"
    ELSE item.type

\* C9 (as claimed): a field of kind array with an items descriptor (and no
\* override type name) is emitted with the type [InnerType], InnerType being
\* the type name the items descriptor resolves to.
C9_ArrayOfInnerType ==
    pc = "done" =>
        \A i \in 1 .. Len(schema) :
            (schema[i].type = "array" /\ schema[i].items # NoItems
                /\ schema[i].graphqlType = Absent) =>
                \E j \in 1 .. Len(lines) :
                    /\ lines[j].field = i - 1
                    /\ lines[j].type =
                          "[" \o InnerType(schema[i].items[1]) \o "]"
                              \o (IF schema[i].required THEN "!" ELSE "")

\* C10 (as claimed): in the output every field line but the last emitted one
\* ends with a comma, the last emitted one does not, and the lines keep the
\* insertion order of the field map.
C10_CommaOnAllButLastLine ==
    pc = "done" =>
        /\ \A j \in 1 .. Len(lines) :
              /\ res[j + 1] = Line(lines[j].name, lines[j].type,
                                   IF j < Len(lines) THEN "," ELSE "")
        /\ \A j, k \in 1 .. Len(lines) : j < k => lines[j].field < lines[k].field


\* C11 (as claimed): generateType never throws; an empty or absent field map
\* gives a type without field lines, and a malformed descriptor (null, a
\* primitive, one without kind or items) has its field omitted or defaulted.
C11_NeverThrows ==
    /\ pc # "threw"
    /\ (pc = "done" /\ schema = <<>>) => res = <<"type Board {", "}">>
    /\ pc = "done" =>
          \A i \in 1 .. Len(schema) :
              \/ ~Emitted(i)
              \/ \E j \in 1 .. Len(lines) :
                    lines[j].field = i - 1 /\ lines[j].type \in {"String", "String!"}


\* The type text of a field whose base type name is `base`: the array wrapper
\* for kind array, then the required suffix.
TypeText(field, base) ==
    (IF field.type = "array" THEN "[" \o base \o "]" ELSE base)
        \o (IF field.required THEN "!" ELSE "")

\* The name a token stands for: String, Boolean and Int for string, boolean
\* and number, every other token itself.
NameOf(token) ==
    IF token = "string" THEN "String"
    ELSE IF token = "boolean" THEN "Boolean"
    ELSE IF token = "number" THEN "Int"
    ELSE token

\* The base type name as claimed: the override verbatim, else the kind's name.
ClaimedBase(field) ==
    IF field.graphqlType # Absent THEN field.graphqlType
    ELSE IF field.type = Absent THEN "String"
    ELSE NameOf(field.type)

\* The base type name as amended: the override's name, else the kind's name.
ResolvedBase(field) ==
    IF field.graphqlType # Absent THEN NameOf(field.graphqlType)
    ELSE IF field.type = Absent THEN "String"
    ELSE NameOf(field.type)

\* A field with this base type name is not well defined.
NotWellDefined(field, base) ==
    \/ base = "object" /\ ~field.properties
    \/ base = "array" /\ field.items = NoItems

\* C12 (as claimed): every emitted line carries the override type name
\* verbatim when the descriptor has one, else String, Boolean, Int or the kind
\* token; and a field is omitted exactly when that name is not well defined.
C12_OverrideVerbatim ==
    /\ \A j \in 1 .. Len(lines) :
          lines[j].type = TypeText(schema[lines[j].field + 1],
                                   ClaimedBase(schema[lines[j].field + 1]))
    /\ pc = "done" =>
          \A i \in 1 .. Len(schema) :
              Emitted(i) <=> ~NotWellDefined(schema[i], ClaimedBase(schema[i]))

\* C12 (amended): every emitted line carries the name of the override type
\* name when the descriptor has one, else of the kind, else String, where
\* string, boolean and number are named String, Boolean and Int and every
\* other token itself; and a field is omitted exactly when that name is object
\* without properties or array without items.
C12_OverrideNamed ==
    /\ \A j \in 1 .. Len(lines) :
          lines[j].type = TypeText(schema[lines[j].field + 1],
                                   ResolvedBase(schema[lines[j].field + 1]))
    /\ pc = "done" =>
          \A i \in 1 .. Len(schema) :
              Emitted(i) <=> ~NotWellDefined(schema[i], ResolvedBase(schema[i]))

\* A field of kind string with the override type name number was emitted as Int,
\* or one of kind number with the override Float as Float.
C12_Witness ==
    /\ pc = "done"
    /\ Len(lines) = 1
    /\ \/ /\ schema[1].graphqlType = "number"
          /\ schema[1].type = "string"
          /\ lines[1].type = "Int"
       \/ /\ schema[1].graphqlType = "Float"
          /\ schema[1].type = "number"
          /\ lines[1].type = "Float"


\* C14 (as claimed): UPDATE_LIST is an upsert that completes without error,
\* so after a list move whose updateList request the server answered, no
\* failure is reported, the stored list carries the position the server
\* returned and the collection has the length it had.
C14_ListMoveReportsNoFailure ==
    (last.op = "changeListPosition" /\ ~last.threw /\ last.toIndex # Null
        /\ last.response = "resolved") =>
        /\ ~last.failed
        /\ position[last.moved] = ServerPosition(last.newPosition)
        /\ Len(rows) = Len(last.rowsBefore)


\* The server has persisted the move of client c.
Persisted(c) == moves[c].stage \in {"answered", "failed", "done"}

\* Client c computed its move from the positions the server held at the moment
\* it persisted the move.
Fresh(c) == moves[c].snapshot.position = moves[c].over.position

\* Two distinct entities of the persisted container hold the same position.
Collision ==
    \E i, j \in 1 .. Len(server.rows) :
        i # j /\ server.position[server.rows[i]] = server.position[server.rows[j]]

\* The view of client c is in non-descending order of the persisted positions.
ViewAgrees(c) ==
    \A i \in 1 .. Len(store[c].rows) - 1 :
        server.position[store[c].rows[i]] <= server.position[store[c].rows[i + 1]]

\* The two clients computed from the same snapshot a move of two distinct
\* entities into the same slot, and the server has persisted both.
SameSlotFromSameSnapshot ==
    /\ \A c \in Clients : Persisted(c)
    /\ moves["c1"].snapshot = moves["c2"].snapshot
    /\ moves["c1"].moved # moves["c2"].moved
    /\ moves["c1"].toPrev = moves["c2"].toPrev
    /\ moves["c1"].toNext = moves["c2"].toNext

\* C13: two moves computed from the same snapshot into the same slot and both
\* persisted leave the two entities at the same persisted position; and two
\* entities of a container collide only where a persisted move was computed
\* from a snapshot that was stale when the server wrote it.
C13_StaleSnapshotCollides ==
    /\ SameSlotFromSameSnapshot =>
          server.position[moves["c1"].moved] = server.position[moves["c2"].moved]
    /\ Collision => \E c \in Clients : Persisted(c) /\ ~Fresh(c)

\* C13 (witness): both clients moved from the same snapshot, both writes are
\* persisted, two distinct entities hold the same position and the view of a
\* client is not in the order of the persisted positions.
C13_Witness ==
    /\ SameSlotFromSameSnapshot
    /\ Collision
    /\ \E c \in Clients : ~Fresh(c)
    /\ \E c \in Clients : ~ViewAgrees(c)

====
